---- MODULE Spec2Model ----
(***************************************************************************)
(* The podcast processing workflow (src/inngest/functions/                 *)
(* podcast-processor.ts, the allSettled orchestrator) run against one      *)
(* project record of the document store (src/convex/projects.ts).          *)
(*                                                                         *)
(* The project record is one variable; every mutation is an operator from  *)
(* a record to the patched record, applied in one step (a Convex mutation   *)
(* is one transaction).  The handler is a pc over its awaited steps; a     *)
(* body that issues several mutations has one position per mutation (sub). *)
(* An artifact or an error message is modelled by the name of the task     *)
(* that produced it, so a value stored under the wrong name is visible.    *)
(***************************************************************************)
EXTENDS Naturals, FiniteSets, Sequences, TLC

VARIABLES
    project,    \* the project document: status, jobStatus, error, transcript, artifacts, jobErrors, completedAt
    pc,         \* position of the workflow handler
    sub,        \* position inside the body of the step the handler is executing
    memo,       \* the executor's checkpoint table: step id -> "none" | "ok" | "err"
    tries,      \* failed attempts of a step whose result is not checkpointed yet
    attempt,    \* number of workflow-level retries used
    results,    \* the six promises of the fan-out: "idle" | "pending" | "fulfilled" | "rejected"
    chapters,   \* the number of chapters of the transcript returned by transcribe-audio
    forced,     \* test stubs: forced[t] = the generate function of t is forced to raise
    provider,   \* the texts the transcription provider may answer with for the audio of this run
    response,   \* response[t]: the content the model answers the call of task t with, "valid" | "malformed"
    invoked,    \* generate functions that have been invoked at least once
    work,       \* work[t]: times the work of task t (model call or computation) has completed
    published,  \* the messages the run has published on the channel of its project, in order
    owner,      \* the projects of the store: project id -> userId of its owner
    rpc,        \* position of the handler of GET /api/realtime/token
    req,        \* the request being served: the caller's session and the projectId parameter
    resp,       \* the response to the last request served ("none" while one is being served)
    issued,     \* the tokens issued so far, each with the caller and the projectId it was issued for
    outcome,    \* generateSocialPosts: what its model call does, "valid" | "empty" | "malformed" | "throws"
    twitter,    \* generateSocialPosts: the twitter post of the model's output, a sequence of code units
    posted,     \* generateSocialPosts: the twitter post it returned, once it has ("returned", post)
    apc,        \* createProjectAction: position of the call being served
    input,      \* createProjectAction: the caller's session and the fields of the input
    calls,      \* createProjectAction: number of calls made so far
    stored,     \* createProjectAction: the projects created, project id -> status
    events,     \* createProjectAction: the project ids a podcast/uploaded event has been sent for
    outcomeOf,  \* createProjectAction: what each call made so far ended with, "returned" | "threw"
    ledger,     \* concurrent status writers: the project document, its jobStatus and its version
    txn,        \* concurrent status writers: each writer's updateJobStatus call in progress
    acked,      \* concurrent status writers: the status of each writer's last call that returned
    doc,        \* saveGeneratedContent: the project document
    docBefore,  \* saveGeneratedContent: the document as it was before the call
    given,      \* saveGeneratedContent: the content fields of the call, once it is made
    thrown,     \* the handler's catch block: the error it threw last, by the step it came from
    recordErrorCalls, \* the handler's catch block: the calls of recordError it has made
    data,                 \* useProjectRealtime: the messages the subscription has delivered
    processedMessageIds,  \* useProjectRealtime: the ids of the messages applied
    transcriptionStatus,  \* useProjectRealtime: the phase status shown for transcription
    generationStatus,     \* useProjectRealtime: the phase status shown for generation
    hasRealtimeUpdates,   \* useProjectRealtime: whether a message has been applied
    applied               \* useProjectRealtime: the number of messages applied

\* the state of the token route, which the workflow never touches
route == <<owner, rpc, req, resp, issued>>

\* the state of one call of generateSocialPosts
social == <<outcome, twitter, posted>>

\* the state of the server action that creates projects
creation == <<apc, input, calls, stored, events, outcomeOf>>

\* the state of the steps that write their job status concurrently
writers == <<ledger, txn, acked>>

\* the state of one call of the saveGeneratedContent mutation
saving == <<doc, docBefore, given>>

\* the state of the subscriber hook
subscriber ==
    <<data, processedMessageIds, transcriptionStatus, generationStatus, hasRealtimeUpdates, applied>>

\* the state of the workflow, which the token route never touches
workflow == <<project, pc, sub, memo, tries, attempt, results, chapters, forced, provider, response, invoked, work, published, thrown, recordErrorCalls>>

\* what the catch block of the handler has done
trap == <<thrown, recordErrorCalls>>

\* what the workflow's handler leaves alone
beyondWorkflow == <<trap, route, social, creation, writers, saving, subscriber>>

\* what the catch block of the handler leaves alone, beyond the workflow
beyondCatch == <<route, social, creation, writers, saving, subscriber>>

\* what the token route leaves alone
beyondRoute == <<workflow, social, creation, writers, saving, subscriber>>

\* what generateSocialPosts leaves alone
beyondSocial == <<workflow, route, creation, writers, saving, subscriber>>

\* what createProjectAction leaves alone
beyondCreation == <<workflow, route, social, writers, saving, subscriber>>

\* what the concurrent status writers leave alone
beyondWriters == <<workflow, route, social, creation, saving, subscriber>>

\* what saveGeneratedContent leaves alone
beyondSaving == <<workflow, route, social, creation, writers, subscriber>>

\* what the subscriber hook leaves alone
beyondSubscriber == <<workflow, route, social, creation, writers, saving>>

vars == <<workflow, route, social, creation, writers, saving, subscriber>>

---------------------------------------------------------------------------
(* Program constants *)

\* retries: 3 of the function configuration
Retries == 3

\* the promise array handed to Promise.allSettled, by position
PromiseOrder ==
    <<"keyMoments", "summary", "socialPosts", "titles", "hashtags", "youtubeTimestamps">>

\* the names the results are read into, by position (results[0] -> keyMoments, ...)
FieldOrder ==
    <<"keyMoments", "summary", "socialPosts", "titles", "hashtags", "youtubeTimestamps">>

generationNamesSwapped ==
    <<"keyMoments", "summary", "socialPosts", "titles", "youtubeTimestamps", "hashtags">>

\* the names the rejected results are recorded under, by position
generationNames ==
    <<"keyMoments", "summary", "socialPosts", "titles", "hashtags", "youtubeTimestamps">>

Positions == 1..6

\* the largest number of chapters a transcript has here
MaxChapters == 4

\* transcript.chapters || []: no chapter (or no chapters field), or some
ChapterCounts == {0, MaxChapters}

Tasks == {PromiseOrder[i] : i \in Positions}

\* the tasks that catch every error and return a placeholder artifact
DegradingTasks == {"summary", "socialPosts", "titles", "hashtags"}

ModelCallStepShared(t) ==
    CASE t = "summary" -> "generate-summary-with-gpt"
      [] t = "socialPosts" -> "generate-social-posts-with-gpt"
      [] t = "titles" -> "generate-titles-with-gpt"
      [] t = "hashtags" -> "generate-hashtags-with-gpt"
      [] t = "youtubeTimestamps" -> "generate-titles-with-gpt"
      [] OTHER -> "no-step"

\* the id of the durable step that wraps the model call of a task
ModelCallStep(t) ==
    CASE t = "summary" -> "generate-summary-with-gpt"
      [] t = "socialPosts" -> "generate-social-posts-with-gpt"
      [] t = "titles" -> "generate-titles-with-gpt"
      [] t = "hashtags" -> "generate-hashtags-with-gpt"
      [] t = "youtubeTimestamps" -> "generate-youtube-titles-with-gpt"
      [] OTHER -> "no-step"

TaskUsesStepNever(t) == FALSE

\* whether the generate function is handed the step tooling: generateKeyMoments(transcript)
\* is called without it, the other five are called as generateX(step, transcript)
TaskUsesStep(t) == t # "keyMoments"

HandlerOrderGenerationFirst ==
    << "update-status-processing",
       "update-job-status-transcription-running",
       "update-job-status-generation-running",
       "transcribe-audio",
       "update-job-status-transcription-completed",
       "fan-out",
       "join",
       "save-job-errors",
       "update-job-status-generation-completed",
       "save-results-to-convex",
       "returned" >>

\* the awaited statements of the try block, in program order
HandlerOrder ==
    << "update-status-processing",
       "update-job-status-transcription-running",
       "transcribe-audio",
       "update-job-status-transcription-completed",
       "update-job-status-generation-running",
       "fan-out",
       "join",
       "save-job-errors",
       "update-job-status-generation-completed",
       "save-results-to-convex",
       "returned" >>

IndexOf(p) == CHOOSE i \in 1..Len(HandlerOrder) : HandlerOrder[i] = p

NextPc(p) == HandlerOrder[IndexOf(p) + 1]

\* the step.run calls of the handler
HandlerSteps ==
    { "update-status-processing",
      "update-job-status-transcription-running",
      "transcribe-audio",
      "update-job-status-transcription-completed",
      "update-job-status-generation-running",
      "save-job-errors",
      "update-job-status-generation-completed",
      "save-results-to-convex" }

StepIds == HandlerSteps \cup {ModelCallStep(t) : t \in Tasks \ {"keyMoments"}}

\* REALTIME_TOPICS: the four topics of the progress channel, in phase order
REALTIME_TOPICS ==
    <<"transcriptionStart", "transcriptionDone", "generationStart", "generationDone">>

\* the message publishStepComplete(publish, projectId, "", "All processing completed!", 100)
\* sends: a step-progress message, none of the four phase topics
publishStepComplete == "stepComplete"

---------------------------------------------------------------------------
(* The document store: mutations of src/convex/projects.ts *)

\* the optional transcript field, absent
NoTranscript == [stored |-> FALSE, text |-> ""]

\* createProject: status "uploaded", every job pending, no optional field
NewProject ==
    [ status      |-> "uploaded",
      jobStatus   |-> [transcription |-> "pending", contentGeneration |-> "pending"],
      error       |-> "none",
      transcript  |-> NoTranscript,
      artifacts   |-> << >>,
      jobErrors   |-> << >>,
      completedAt |-> FALSE ]

MergeReplace(old, new) == new

\* ctx.db.patch on a map-valued field: provided keys overwrite, the others stay
Merge(old, new) ==
    [n \in (DOMAIN old) \cup (DOMAIN new) |-> IF n \in DOMAIN new THEN new[n] ELSE old[n]]

updateProjectStatusNoTime(p, st) == [p EXCEPT !.status = st]

updateProjectStatus(p, st) ==
    [p EXCEPT !.status = st,
              !.completedAt = IF st = "completed" THEN TRUE ELSE @]

updateJobStatus(p, job, st) ==
    [p EXCEPT !.jobStatus = [@ EXCEPT ![job] = st]]

saveTranscriptDropped(p, text) == p

\* ctx.db.patch(projectId, { transcript, updatedAt }): the field is overwritten
saveTranscript(p, text) ==
    [p EXCEPT !.transcript = [stored |-> TRUE, text |-> text]]

saveGeneratedContentOneField(p, content) ==
    [p EXCEPT !.artifacts =
        IF DOMAIN content = {} THEN @
        ELSE Merge(@, [n \in {CHOOSE m \in DOMAIN content : TRUE} |-> content[n]])]

\* one patch carrying every provided content field
saveGeneratedContent(p, content) ==
    [p EXCEPT !.artifacts = Merge(@, content)]

saveJobErrors(p, errs) ==
    [p EXCEPT !.jobErrors = errs]

recordError(p, step) ==
    [p EXCEPT !.status = "failed", !.error = step]

---------------------------------------------------------------------------
(* The durable step executor: step.run / step.ai.wrap *)

\* the body returned: its result is checkpointed and handed to the handler
StepSucceeds(s) ==
    /\ memo' = [memo EXCEPT ![s] = "ok"]
    /\ tries' = [tries EXCEPT ![s] = 0]
    /\ sub' = 0
    /\ pc' = NextPc(s)

\* the body raised: the executor runs it again while attempts remain, then
\* checkpoints the failure and raises it in the handler
StepThrows(s) ==
    /\ sub' = 0
    /\ IF tries[s] < Retries
       THEN /\ tries' = [tries EXCEPT ![s] = @ + 1]
            /\ UNCHANGED <<memo, pc>>
       ELSE /\ tries' = [tries EXCEPT ![s] = 0]
            /\ memo' = [memo EXCEPT ![s] = "err"]
            /\ pc' = "catch"

Executing(s) == pc = s /\ memo[s] = "none"

\* a step whose result is checkpointed: the body is not run, the checkpointed
\* value is returned or the checkpointed failure raised
ReplayStep ==
    /\ pc \in HandlerSteps
    /\ memo[pc] # "none"
    /\ pc' = IF memo[pc] = "ok" THEN NextPc(pc) ELSE "catch"
    /\ UNCHANGED <<project, sub, memo, tries, attempt, results, chapters, forced, provider, response, invoked, work, published, beyondWorkflow>>

---------------------------------------------------------------------------
(* The handler of podcastProcessor *)

frame == <<attempt, results, chapters, forced, provider, response, invoked, work, published, beyondWorkflow>>

UpdateStatusProcessing ==
    /\ Executing("update-status-processing")
    /\ \E ok \in BOOLEAN :
         IF ok
         THEN /\ project' = updateProjectStatus(project, "processing")
              /\ StepSucceeds("update-status-processing")
         ELSE /\ project' = project
              /\ StepThrows("update-status-processing")
    /\ UNCHANGED frame

UpdateJobStatusTranscriptionRunning ==
    /\ Executing("update-job-status-transcription-running")
    /\ \E ok \in BOOLEAN :
         IF ok
         THEN /\ project' = updateJobStatus(project, "transcription", "running")
              /\ StepSucceeds("update-job-status-transcription-running")
         ELSE /\ project' = project
              /\ StepThrows("update-job-status-transcription-running")
    /\ UNCHANGED frame

\* the text of a provider response without one (response.text is undefined)
NoText == "undefined"

\* the answers of a provider that transcribes speech
Speech == {"words"}

\* the answers of a provider for any audio: no text, empty text, or one of two
\* transcriptions that differ
AnyAnswer == {NoText, "", "words", "other words"}

\* text: response.text || ""
formattedText(answer) == IF answer \in {NoText, ""} THEN "" ELSE answer

\* transcribeWithAssemblyAI, one position per awaited call:
\*   0 updateJobStatus(running)   1 assemblyai.transcripts.transcribe
\*   2 saveTranscript             3 updateJobStatus(completed), return
\*   4 catch: updateJobStatus(failed)   5 catch: recordError, throw
TranscribeAudio ==
    /\ Executing("transcribe-audio")
    /\ \E ok \in BOOLEAN, ch \in ChapterCounts :
         CASE sub = 0 ->
                IF ok
                THEN /\ project' = updateJobStatus(project, "transcription", "running")
                     /\ sub' = 1
                     /\ UNCHANGED <<memo, tries, pc, chapters>>
                ELSE /\ project' = project
                     /\ StepThrows("transcribe-audio")
                     /\ UNCHANGED chapters
           [] sub = 1 ->
                /\ project' = project
                /\ sub' = IF ok THEN 2 ELSE 4
                /\ UNCHANGED <<memo, tries, pc, chapters>>
           [] sub = 2 ->
                /\ \E answer \in provider :
                     project' = IF ok THEN saveTranscript(project, formattedText(answer))
                                      ELSE project
                /\ sub' = IF ok THEN 3 ELSE 4
                /\ UNCHANGED <<memo, tries, pc, chapters>>
           [] sub = 3 ->
                IF ok
                THEN /\ project' = updateJobStatus(project, "transcription", "completed")
                     /\ chapters' = ch
                     /\ StepSucceeds("transcribe-audio")
                ELSE /\ project' = project
                     /\ sub' = 4
                     /\ UNCHANGED <<memo, tries, pc, chapters>>
           [] sub = 4 ->
                IF ok
                THEN /\ project' = updateJobStatus(project, "transcription", "failed")
                     /\ sub' = 5
                     /\ UNCHANGED <<memo, tries, pc, chapters>>
                ELSE /\ project' = project
                     /\ StepThrows("transcribe-audio")
                     /\ UNCHANGED chapters
           [] OTHER ->
                /\ project' = IF ok THEN recordError(project, "transcription") ELSE project
                /\ StepThrows("transcribe-audio")
                /\ UNCHANGED chapters
    /\ UNCHANGED <<attempt, results, forced, provider, response, invoked, work, published, beyondWorkflow>>

UpdateJobStatusTranscriptionCompleted ==
    /\ Executing("update-job-status-transcription-completed")
    /\ \E ok \in BOOLEAN :
         IF ok
         THEN /\ project' = updateJobStatus(project, "transcription", "completed")
              /\ StepSucceeds("update-job-status-transcription-completed")
         ELSE /\ project' = project
              /\ StepThrows("update-job-status-transcription-completed")
    /\ UNCHANGED frame

UpdateJobStatusGenerationRunning ==
    /\ Executing("update-job-status-generation-running")
    /\ \E ok \in BOOLEAN :
         IF ok
         THEN /\ project' = updateJobStatus(project, "contentGeneration", "running")
              /\ StepSucceeds("update-job-status-generation-running")
         ELSE /\ project' = project
              /\ StepThrows("update-job-status-generation-running")
    /\ UNCHANGED frame

---------------------------------------------------------------------------
(* Fan-out: the six generate functions *)

OnThrowRaise(t) == "rejected"

\* how a task settles when its model call raises: the four degrading tasks catch
\* the error and return a placeholder artifact, generateYouTubeTimestamps has no try
OnThrow(t) == IF t \in DegradingTasks THEN "fulfilled" ELSE "rejected"

OnMalformedRaise(t) == IF t \in DegradingTasks THEN "fulfilled" ELSE "rejected"

\* how a task settles when the content of the model's response does not parse or
\* validate: the four degrading tasks parse inside their try and return the
\* placeholder, generateYouTubeTimestamps catches the parse error and keeps the
\* chapters' own headlines
OnMalformed(t) == "fulfilled"

\* how a task settles once its model call has returned a response
OnResponse(t) == IF response[t] = "malformed" THEN OnMalformed(t) ELSE "fulfilled"

NoChaptersNever(n) == FALSE

\* if (!chapters || chapters.length === 0) throw new Error("No chapters available ...")
NoChapters(n) == n = 0

GenerateWritesJobStatus(t, p) ==
    [p EXCEPT !.jobStatus = [@ EXCEPT !.contentGeneration = "completed"]]

\* the project record after a generate function has run: none of the six calls
\* a mutation, the record is as it was
GenerateWrites(t, p) == p

\* the body of the artifact task t returns, given the outcome of its model call
BodyOf(t) ==
    IF t = "keyMoments" THEN <<"computed">>
    ELSE IF t = "youtubeTimestamps"
    THEN [i \in 1..chapters |->
            IF response[t] = "malformed" THEN "headline" ELSE "ai-title"]
    ELSE IF memo[ModelCallStep(t)] = "err" \/ response[t] = "malformed"
    THEN <<"placeholder">>
    ELSE <<"generated">>

\* the value a fulfilled promise of task t holds
ArtifactOf(t) == [task |-> t, body |-> BodyOf(t)]

\* the promise a generate function returns, as it stands when the call returns:
\* settled when the function finishes without waiting on the model (a stub that
\* raises, generateKeyMoments, the no-chapters throw, a checkpointed model call),
\* pending when it awaits a model call
PromiseAtCall(t) ==
    IF forced[t] THEN "rejected"
    ELSE IF t = "keyMoments" THEN "fulfilled"
    ELSE IF t = "youtubeTimestamps" /\ NoChapters(chapters) THEN "rejected"
    ELSE IF TaskUsesStep(t) /\ memo[ModelCallStep(t)] = "ok" THEN OnResponse(t)
    ELSE IF TaskUsesStep(t) /\ memo[ModelCallStep(t)] = "err" THEN OnThrow(t)
    ELSE "pending"

\* the array literal: all six functions are called before allSettled awaits;
\* generateKeyMoments maps the chapters and is finished when it returns
FanOut ==
    /\ pc = "fan-out"
    /\ results' = [i \in Positions |-> PromiseAtCall(PromiseOrder[i])]
    /\ invoked' = invoked \cup Tasks
    /\ work' = IF forced["keyMoments"] THEN work ELSE [work EXCEPT !["keyMoments"] = @ + 1]
    /\ pc' = NextPc("fan-out")
    /\ project' = GenerateWrites("keyMoments", project)
    /\ UNCHANGED <<sub, memo, tries, attempt, chapters, forced, provider, response, published, beyondWorkflow>>

Running(i) == pc = "join" /\ results[i] = "pending"

Settle(i, st) == results' = [results EXCEPT ![i] = st]

\* one attempt of step.ai.wrap(id, createCompletion, ...) inside task t at position i
ModelCall(t, i, ok) ==
    LET s == ModelCallStep(t) IN
    IF ~TaskUsesStep(t)
    THEN /\ UNCHANGED <<memo, tries>>
         /\ work' = IF ok THEN [work EXCEPT ![t] = @ + 1] ELSE work
         /\ Settle(i, IF ok THEN OnResponse(t) ELSE OnThrow(t))
    ELSE IF ok
    THEN /\ memo' = [memo EXCEPT ![s] = "ok"]
         /\ tries' = [tries EXCEPT ![s] = 0]
         /\ work' = [work EXCEPT ![t] = @ + 1]
         /\ Settle(i, OnResponse(t))
    ELSE IF tries[s] < Retries
    THEN /\ tries' = [tries EXCEPT ![s] = @ + 1]
         /\ UNCHANGED <<memo, work, results>>
    ELSE /\ memo' = [memo EXCEPT ![s] = "err"]
         /\ tries' = [tries EXCEPT ![s] = 0]
         /\ work' = work
         /\ Settle(i, OnThrow(t))

\* a generate function resumed by the outcome of its model call
Generate(t) ==
    /\ \E i \in Positions, ok \in BOOLEAN :
         /\ PromiseOrder[i] = t
         /\ Running(i)
         /\ ModelCall(t, i, ok)
    /\ project' = GenerateWrites(t, project)
    /\ UNCHANGED <<pc, sub, attempt, chapters, forced, provider, response, invoked, published, beyondWorkflow>>

GenerateSummary == Generate("summary")

GenerateSocialPosts == Generate("socialPosts")

GenerateTitles == Generate("titles")

GenerateHashtags == Generate("hashtags")

GenerateYouTubeTimestamps == Generate("youtubeTimestamps")

JoinReadyAny(r) == \E i \in Positions : r[i] \in {"fulfilled", "rejected"}

\* Promise.allSettled resolves when every promise has settled
JoinReady(r) == \A i \in Positions : r[i] \in {"fulfilled", "rejected"}

Join ==
    /\ pc = "join"
    /\ JoinReady(results)
    /\ pc' = NextPc("join")
    /\ UNCHANGED <<project, sub, memo, tries, attempt, results, chapters, forced, provider, response, invoked, work, published, beyondWorkflow>>

---------------------------------------------------------------------------
(* Aggregation and persistence *)

ContentArgsAll(r) ==
    [n \in {FieldOrder[i] : i \in Positions} |->
        ArtifactOf(PromiseOrder[CHOOSE i \in Positions : FieldOrder[i] = n])]

\* keyMoments = results[0].status === "fulfilled" ? results[0].value : undefined, ...
\* (an undefined argument is no field of the patch)
ContentArgs(r) ==
    [n \in {FieldOrder[i] : i \in {j \in Positions : r[j] = "fulfilled"}} |->
        ArtifactOf(PromiseOrder[CHOOSE i \in Positions : FieldOrder[i] = n])]

JobErrorsOfFulfilled(r) ==
    [n \in {generationNames[i] : i \in {j \in Positions : r[j] = "fulfilled"}} |->
        PromiseOrder[CHOOSE i \in Positions : generationNames[i] = n]]

\* results.forEach: jobErrors[generationNames[idx]] = message of the rejection at idx
JobErrorsOf(r) ==
    [n \in {generationNames[i] : i \in {j \in Positions : r[j] = "rejected"}} |->
        PromiseOrder[CHOOSE i \in Positions : generationNames[i] = n]]

\* if (Object.keys(jobErrors).length > 0) await step.run("save-job-errors", ...)
SaveJobErrors ==
    /\ pc = "save-job-errors"
    /\ IF DOMAIN JobErrorsOf(results) = {}
       THEN /\ pc' = NextPc("save-job-errors")
            /\ UNCHANGED <<project, sub, memo, tries>>
       ELSE /\ memo["save-job-errors"] = "none"
            /\ \E ok \in BOOLEAN :
                 IF ok
                 THEN /\ project' = saveJobErrors(project, JobErrorsOf(results))
                      /\ StepSucceeds("save-job-errors")
                 ELSE /\ project' = project
                      /\ StepThrows("save-job-errors")
    /\ UNCHANGED frame

UpdateJobStatusGenerationCompleted ==
    /\ Executing("update-job-status-generation-completed")
    /\ \E ok \in BOOLEAN :
         IF ok
         THEN /\ project' = updateJobStatus(project, "contentGeneration", "completed")
              /\ StepSucceeds("update-job-status-generation-completed")
         ELSE /\ project' = project
              /\ StepThrows("update-job-status-generation-completed")
    /\ UNCHANGED frame

CompletionStatusStrict(r) ==
    IF \E i \in Positions : r[i] = "rejected" THEN "failed" ELSE "completed"

\* the status saveResultsToConvex writes after the content: "completed", whatever the results
CompletionStatus(r) == "completed"

\* saveResultsToConvex, one position per awaited call:
\*   0 saveGeneratedContent   1 updateProjectStatus(completed)   2 publishStepComplete
SaveResultsToConvex ==
    /\ Executing("save-results-to-convex")
    /\ \E ok \in BOOLEAN :
         IF ~ok
         THEN /\ project' = project
              /\ published' = published
              /\ StepThrows("save-results-to-convex")
         ELSE CASE sub = 0 ->
                     /\ project' = saveGeneratedContent(project, ContentArgs(results))
                     /\ published' = published
                     /\ sub' = 1
                     /\ UNCHANGED <<memo, tries, pc>>
                [] sub = 1 ->
                     /\ project' = updateProjectStatus(project, CompletionStatus(results))
                     /\ published' = published
                     /\ sub' = 2
                     /\ UNCHANGED <<memo, tries, pc>>
                [] OTHER ->
                     /\ project' = project
                     /\ published' = Append(published, publishStepComplete)
                     /\ StepSucceeds("save-results-to-convex")
    /\ UNCHANGED <<attempt, results, chapters, forced, provider, response, invoked, work, beyondWorkflow>>

\* catch (error): recordError outside any step; its own failure is swallowed
\* catch (error): the error raised in the try block, named by the step whose
\* checkpointed failure it is
Caught ==
    IF \E s \in HandlerSteps : memo[s] = "err"
    THEN CHOOSE s \in HandlerSteps : memo[s] = "err"
    ELSE "unknown"

RethrownCleanupError(error, cleanupFailed) == IF cleanupFailed THEN "cleanupError" ELSE error

\* throw error, after the inner try/catch around recordError
Rethrown(error, cleanupFailed) == error

Catch ==
    /\ pc = "catch"
    /\ \E ok \in BOOLEAN :
         /\ project' = IF ok THEN recordError(project, "workflow") ELSE project
         /\ thrown' = Rethrown(Caught, ~ok)
    /\ recordErrorCalls' = recordErrorCalls + 1
    /\ pc' = "rethrow"
    /\ UNCHANGED <<sub, memo, tries, attempt, results, chapters, forced, provider, response, invoked, work, published, beyondCatch>>

\* throw error: the runtime runs the handler again from the top while attempts remain
RetryWorkflow ==
    /\ pc = "rethrow"
    /\ attempt < Retries
    /\ attempt' = attempt + 1
    /\ pc' = HandlerOrder[1]
    /\ results' = [i \in Positions |-> "idle"]
    /\ UNCHANGED <<project, sub, memo, tries, chapters, forced, provider, response, invoked, work, published, beyondWorkflow>>

\* throw error with no attempt left: the run has failed
GiveUp ==
    /\ pc = "rethrow"
    /\ attempt = Retries
    /\ pc' = "failed"
    /\ UNCHANGED <<project, sub, memo, tries, attempt, results, chapters, forced, provider, response, invoked, work, published, beyondWorkflow>>

---------------------------------------------------------------------------
(* GET /api/realtime/token: src/app/api/realtime/token/route.ts *)

Users == {"u1", "u2"}

\* the session of a caller: a signed-in user, or nobody
Sessions == Users \cup {"anonymous"}

ProjectIds == {"p1", "p2"}

\* the values of the projectId query parameter: absent, the id of a stored
\* project, a well-formed id of no project, a string that is no id
ProjectIdParams == ProjectIds \cup {"missing", "p3", "malformed"}

\* a response body without a token
NoToken == [channel |-> << >>, topics |-> {}]

\* what ctx.db.get returns for an id of no document
null == [null |-> TRUE]

\* no response yet: the request is being served
Serving == [status |-> "serving", token |-> NoToken]

\* apiError(message, status) / apiResponse({ token })
Response(status, token) == [status |-> status, token |-> token]

\* const channelName = `project:${projectId}`
channelName(projectId) == <<"project", projectId>>

\* const topics = [TRANSCRIPTION_START, TRANSCRIPTION_DONE, GENERATION_START, GENERATION_DONE]
topics == {REALTIME_TOPICS[i] : i \in DOMAIN REALTIME_TOPICS}

\* getSubscriptionToken(inngest, { channel, topics }): the token carries its scope
getSubscriptionToken(channel, tps) == [channel |-> channel, topics |-> tps]

\* api.projects.getProject: ctx.db.get(projectId), null when there is no such document
getProject(projectId) ==
    IF projectId \in DOMAIN owner THEN [userId |-> owner[projectId]] ELSE null

OwnsAny(p, userId) == TRUE

\* if (project.userId !== userId) return apiError("Forbidden", 403)
Owns(p, userId) == p.userId = userId

\* a request arrives
Request ==
    /\ rpc = "idle"
    /\ \E u \in Sessions, id \in ProjectIdParams :
         req' = [session |-> u, projectId |-> id]
    /\ resp' = Serving
    /\ rpc' = "withAuth"
    /\ UNCHANGED <<owner, issued, beyondRoute>>

\* const { userId } = await withAuth(): raises its own error response when nobody
\* is signed in, which the catch block returns as it is
WithAuth ==
    /\ rpc = "withAuth"
    /\ IF req.session = "anonymous"
       THEN /\ resp' = Response("auth-error", NoToken)
            /\ rpc' = "idle"
       ELSE /\ resp' = resp
            /\ rpc' = "projectId"
    /\ UNCHANGED <<owner, req, issued, beyondRoute>>

\* if (!projectId) return apiError("Missing projectId", 400)
CheckProjectId ==
    /\ rpc = "projectId"
    /\ IF req.projectId = "missing"
       THEN /\ resp' = Response("400", NoToken)
            /\ rpc' = "idle"
       ELSE /\ resp' = resp
            /\ rpc' = "getProject"
    /\ UNCHANGED <<owner, req, issued, beyondRoute>>

\* convex.query(getProject), then the 404 and 403 exits: the query raises when
\* the store is unreachable or the parameter is no id, and the catch block answers
\* apiError(message) with no status argument
Authorize ==
    /\ rpc = "getProject"
    /\ \E ok \in BOOLEAN :
         LET p == getProject(req.projectId) IN
         IF ~ok \/ req.projectId = "malformed"
         THEN /\ resp' = Response("default-error", NoToken)
              /\ rpc' = "idle"
         ELSE IF p = null
         THEN /\ resp' = Response("404", NoToken)
              /\ rpc' = "idle"
         ELSE IF ~Owns(p, req.session)
         THEN /\ resp' = Response("403", NoToken)
              /\ rpc' = "idle"
         ELSE /\ resp' = resp
              /\ rpc' = "getSubscriptionToken"
    /\ UNCHANGED <<owner, req, issued, beyondRoute>>

\* the token is generated for the channel of the requested project and returned
IssueToken ==
    /\ rpc = "getSubscriptionToken"
    /\ \E ok \in BOOLEAN :
         LET token == getSubscriptionToken(channelName(req.projectId), topics) IN
         IF ok
         THEN /\ resp' = Response("200", token)
              /\ issued' = issued \cup
                    {[session |-> req.session, projectId |-> req.projectId, token |-> token]}
         ELSE /\ resp' = Response("default-error", NoToken)
              /\ issued' = issued
    /\ rpc' = "idle"
    /\ UNCHANGED <<owner, req, beyondRoute>>

RouteInit(owners) ==
    /\ owner \in owners
    /\ rpc = "idle"
    /\ req = [session |-> "anonymous", projectId |-> "missing"]
    /\ resp = Serving
    /\ issued = {}

---------------------------------------------------------------------------
(* generateSocialPosts: the twitter post it returns *)

\* if (socialPosts.twitter.length > 280)
TwitterLimit == 280

\* socialPosts.twitter.substring(0, 277)
TruncatedLength == 277

\* the marker "..." as code units
Marker == <<46, 46, 46>>

\* the longest post the model answers with here
MaxPostLength == 300

\* a post of n code units; posts of the same length differ by the seed
Text(n, seed) == [i \in 1..n |-> 97 + ((i + seed) % 26)]

Posts == {Text(n, seed) : n \in 0..MaxPostLength, seed \in 0..1}

\* "New podcast episode!": the post used when the response has no content
DefaultTwitter ==
    <<78, 101, 119, 32, 112, 111, 100, 99, 97, 115, 116, 32, 101, 112, 105, 115, 111, 100, 101, 33>>

\* the post of the placeholder artifact the catch block returns
ErrorTwitter ==
    <<9888, 65039, 32, 69, 114, 114, 111, 114, 32, 103, 101, 110, 101, 114, 97, 116, 105, 110,
      103, 32, 115, 111, 99, 105, 97, 108, 32, 112, 111, 115, 116, 46, 32, 67, 104, 101, 99,
      107, 32, 108, 111, 103, 115, 32, 102, 111, 114, 32, 100, 101, 116, 97, 105, 108, 115, 46>>

\* socialPostsSchema.parse on the twitter field: a string of any length passes
socialPostsSchema(post) == TRUE

substring(str, from, to) == SubSeq(str, from + 1, IF to > Len(str) THEN Len(str) ELSE to)

truncateNever(post) == post

\* the safety check: a post over the limit is cut to 277 code units and marked
truncate(post) ==
    IF Len(post) > TwitterLimit
    THEN substring(post, 0, TruncatedLength) \o Marker
    ELSE post

\* the twitter post generateSocialPosts returns
twitterOf(oc, post) ==
    CASE oc = "valid" /\ socialPostsSchema(post) -> truncate(post)
      [] oc = "empty" -> truncate(DefaultTwitter)
      [] OTHER -> ErrorTwitter

GenerateSocialPostsReturns ==
    /\ posted[1] = "running"
    /\ posted' = <<"returned", twitterOf(outcome, twitter)>>
    /\ UNCHANGED <<outcome, twitter, beyondSocial>>

\* the function is called again, with another output of the model
GenerateSocialPostsCalled ==
    /\ posted[1] = "returned"
    /\ \E oc \in {"valid", "empty", "malformed", "throws"}, post \in Posts :
         /\ outcome' = oc
         /\ twitter' = IF oc = "valid" THEN post ELSE << >>
    /\ posted' = <<"running", << >> >>
    /\ UNCHANGED beyondSocial

SocialInit(outcomes, posts) ==
    /\ outcome \in outcomes
    /\ twitter \in posts
    /\ posted = <<"running", << >> >>

---------------------------------------------------------------------------
(* createProjectAction: src/app/actions/projects.ts *)

\* the number of calls of the action followed here
MaxCalls == 3

\* the input of a call: who is signed in, and whether fileUrl and fileName are given
Inputs == [session : Sessions, fileUrl : BOOLEAN, fileName : BOOLEAN]

\* the id createProject returns for the project of the n-th call
ProjectIdOf(n) == n

\* a call of the action arrives
CallCreateProjectAction ==
    /\ apc = "idle"
    /\ calls < MaxCalls
    /\ calls' = calls + 1
    /\ \E i \in Inputs : input' = i
    /\ apc' = "auth"
    /\ UNCHANGED <<stored, events, outcomeOf, beyondCreation>>

\* how a call ends: return { success: true, projectId }, or the catch block's rethrow
Ends(how) ==
    /\ outcomeOf' = Append(outcomeOf, how)
    /\ apc' = "idle"

\* auth(), if (!userId) throw; if (!fileUrl || !fileName) throw
AuthAndValidate ==
    /\ apc = "auth"
    /\ IF input.session = "anonymous" \/ ~input.fileUrl \/ ~input.fileName
       THEN Ends("threw")
       ELSE apc' = "createProject" /\ UNCHANGED outcomeOf
    /\ UNCHANGED <<input, calls, stored, events, beyondCreation>>

\* const projectId = await convex.mutation(api.projects.createProject, ...)
CreateProject ==
    /\ apc = "createProject"
    /\ \E ok \in BOOLEAN :
         IF ok
         THEN /\ stored' = (ProjectIdOf(calls) :> NewProject.status) @@ stored
              /\ apc' = "send"
              /\ UNCHANGED outcomeOf
         ELSE /\ stored' = stored
              /\ Ends("threw")
    /\ UNCHANGED <<input, calls, events, beyondCreation>>

\* await inngest.send({ name: "podcast/uploaded", data: { projectId, ... } })
InngestSend ==
    /\ apc = "send"
    /\ \E ok \in BOOLEAN :
         IF ok
         THEN /\ events' = events \cup {ProjectIdOf(calls)}
              /\ Ends("returned")
         ELSE /\ events' = events
              /\ Ends("threw")
    /\ UNCHANGED <<input, calls, stored, beyondCreation>>

CreationInit ==
    /\ apc = "idle"
    /\ input = [session |-> "anonymous", fileUrl |-> FALSE, fileName |-> FALSE]
    /\ calls = 0
    /\ stored = << >>
    /\ events = {}
    /\ outcomeOf = << >>

---------------------------------------------------------------------------
(* Concurrent updateJobStatus calls: src/convex/projects.ts, and the steps of
   the Promise.all fan-out that call it, each for its own job *)

\* args.job
JobNames == {"transcription", "keyMoments", "summary", "captions", "social",
             "titles", "hashtags", "youtubeTimestamps"}

\* the steps followed here; each reports the status of the job it is named after
Writers == {"keyMoments", "summary", "titles"}

\* the statuses a step reports, in order
Reports == <<"running", "completed">>

\* a transaction that read the document at one version conflicts with a
\* commit made since: the mutation is rerun
ConflictsNever(seen, current) == FALSE

Conflicts(seen, current) == seen # current

\* { ...project.jobStatus, [args.job]: args.status }
jobStatusPatch(jobStatus, job, st) == [jobStatus EXCEPT ![job] = st]

\* the status the writer reports next
NextReport(w) == Reports[txn[w].done + 1]

\* convex.mutation(api.projects.updateJobStatus, { projectId, job, status })
CallUpdateJobStatus(w) ==
    /\ txn[w].at = "idle"
    /\ txn[w].done < Len(Reports)
    /\ txn' = [txn EXCEPT ![w].at = "get"]
    /\ UNCHANGED <<ledger, acked, beyondWriters>>

\* const project = await ctx.db.get(args.projectId); if (!project) throw
Get(w) ==
    /\ txn[w].at = "get"
    /\ txn' = [txn EXCEPT ![w] =
                 IF ledger.exists
                 THEN [@ EXCEPT !.at = "patch", !.seen = ledger.jobStatus,
                                !.version = ledger.version]
                 ELSE [@ EXCEPT !.at = "threw"]]
    /\ UNCHANGED <<ledger, acked, beyondWriters>>

\* await ctx.db.patch(args.projectId, { jobStatus: {...}, updatedAt }), and the
\* commit of the mutation
Patch(w) ==
    /\ txn[w].at = "patch"
    /\ IF Conflicts(txn[w].version, ledger.version)
       THEN /\ txn' = [txn EXCEPT ![w].at = "get", ![w].reruns = 1]
            /\ UNCHANGED <<ledger, acked>>
       ELSE /\ ledger' = [ledger EXCEPT
                            !.jobStatus = jobStatusPatch(txn[w].seen, w, NextReport(w)),
                            !.version = @ + 1]
            /\ acked' = [acked EXCEPT ![w] = NextReport(w)]
            /\ txn' = [txn EXCEPT ![w].at = "idle", ![w].done = @ + 1]
    /\ UNCHANGED beyondWriters

\* the jobStatus createProject gives a project
NewJobStatus == [j \in JobNames |-> "pending"]

WritersInit(exists) ==
    /\ ledger \in [exists : exists, jobStatus : {NewJobStatus}, version : {0}]
    /\ txn = [w \in Writers |->
                [at |-> "idle", done |-> 0, seen |-> NewJobStatus, version |-> 0, reruns |-> 0]]
    /\ acked = [w \in Writers |-> "none"]

---------------------------------------------------------------------------
(* The saveGeneratedContent mutation on any document: src/convex/projects.ts *)

ContentFields == {FieldOrder[i] : i \in Positions}

\* a content value of a field, as validated by args
ContentValue(n, body) == [task |-> n, body |-> <<body>>]

\* the documents the mutation may meet: some content fields already stored,
\* the project in any state
Documents ==
    {[NewProject EXCEPT !.status = st,
                        !.jobStatus = [transcription |-> "completed", contentGeneration |-> gen],
                        !.transcript = [stored |-> TRUE, text |-> "words"],
                        !.error = err,
                        !.artifacts = [n \in present |-> ContentValue(n, "stored")]] :
        st \in {"processing", "failed"}, gen \in {"running", "completed"},
        err \in {"none", "workflow"}, present \in SUBSET ContentFields}

\* const { projectId, ...content } = args: the optional fields that are given
Contents ==
    UNION {[present -> {"given"}] : present \in SUBSET ContentFields}

\* handler: ctx.db.patch(projectId, { ...content, updatedAt })
SaveGeneratedContentCalled ==
    /\ ~given.called
    /\ \E c \in Contents :
         LET content == [n \in DOMAIN c |-> ContentValue(n, c[n])]
         IN /\ doc' = saveGeneratedContent(doc, content)
            /\ given' = [called |-> TRUE, content |-> content]
    /\ UNCHANGED <<docBefore, beyondSaving>>

SavingInit(docs) ==
    /\ doc \in docs
    /\ docBefore = doc
    /\ given = [called |-> FALSE, content |-> << >>]

---------------------------------------------------------------------------
(* useProjectRealtime: src/hooks/use-project-realtime.ts *)

\* the number of messages the subscription delivers here
MaxDeliveries == 4

\* the largest number of messages one update of data adds
MaxBatch == 2

\* message.data: the payloads of two publications
Payloads == {"first", "second"}

\* the messages the channel carries: one of the four topics, with a payload
Messages == [topic : {REALTIME_TOPICS[i] : i \in 1..4}, data : Payloads]

\* `${message.topic}-${JSON.stringify(message.data)}`
messageId(message) == <<message.topic, "-", message.data>>

alreadyProcessedNever(ids, id) == FALSE

\* processedMessageIds.has(messageId)
alreadyProcessed(ids, id) == id \in ids

\* the state of the hook
HookState ==
    [ processedMessageIds |-> processedMessageIds,
      transcriptionStatus |-> transcriptionStatus,
      generationStatus    |-> generationStatus,
      hasRealtimeUpdates  |-> hasRealtimeUpdates,
      applied             |-> applied ]

\* the callback of data.forEach
onMessage(st, message) ==
    IF alreadyProcessed(st.processedMessageIds, messageId(message))
    THEN st
    ELSE [st EXCEPT
            !.processedMessageIds = @ \cup {messageId(message)},
            !.hasRealtimeUpdates = TRUE,
            !.applied = @ + 1,
            !.transcriptionStatus =
                IF message.topic = REALTIME_TOPICS[1] THEN "running"
                ELSE IF message.topic = REALTIME_TOPICS[2] THEN "completed"
                ELSE @,
            !.generationStatus =
                IF message.topic = REALTIME_TOPICS[3] THEN "running"
                ELSE IF message.topic = REALTIME_TOPICS[4] THEN "completed"
                ELSE @]

RECURSIVE forEach(_, _)
\* data.forEach(callback): every message of data, in order
forEach(messages, st) ==
    IF messages = << >> THEN st
    ELSE forEach(Tail(messages), onMessage(st, Head(messages)))

\* the batches of messages one update of data may add
Batches == UNION {[1..n -> Messages] : n \in 1..MaxBatch}

\* the subscription delivers: data grows and the effect runs over all of it
Deliver ==
    \E batch \in Batches :
        /\ Len(data) + Len(batch) <= MaxDeliveries
        /\ data' = data \o batch
        /\ LET st == forEach(data', HookState)
           IN /\ processedMessageIds' = st.processedMessageIds
              /\ transcriptionStatus' = st.transcriptionStatus
              /\ generationStatus' = st.generationStatus
              /\ hasRealtimeUpdates' = st.hasRealtimeUpdates
              /\ applied' = st.applied
        /\ UNCHANGED beyondSubscriber

SubscriberInit ==
    /\ data = << >>
    /\ processedMessageIds = {}
    /\ transcriptionStatus = "pending"
    /\ generationStatus = "pending"
    /\ hasRealtimeUpdates = FALSE
    /\ applied = 0

---------------------------------------------------------------------------
(* Specifications *)

\* the workflow when the event arrives, under the given test doubles and model responses
WorkflowInitWith(stubs, responses, providers) ==
    /\ provider \in providers
    /\ project = NewProject
    /\ pc = HandlerOrder[1]
    /\ sub = 0
    /\ memo = [s \in StepIds |-> "none"]
    /\ tries = [s \in StepIds |-> 0]
    /\ attempt = 0
    /\ results = [i \in Positions |-> "idle"]
    /\ chapters = 0
    /\ forced \in stubs
    /\ response \in responses
    /\ invoked = {}
    /\ work = [t \in Tasks |-> 0]
    /\ published = << >>
    /\ thrown = "none"
    /\ recordErrorCalls = 0

WorkflowInit(stubs, responses) == WorkflowInitWith(stubs, responses, {Speech})

NoStub == {[t \in Tasks |-> FALSE]}

ValidResponses == {[t \in Tasks |-> "valid"]}

\* the components that are at rest while another one is examined
RouteAtRest == RouteInit({[id \in ProjectIds |-> "u1"]})

SavingAtRest == SavingInit({NewProject})

WritersAtRest == WritersInit({TRUE})

SocialAtRest == SocialInit({"empty"}, {<< >>})

InitWith(stubs) ==
    /\ WorkflowInit(stubs, ValidResponses)
    /\ RouteAtRest
    /\ SocialAtRest
    /\ CreationInit
    /\ WritersAtRest
    /\ SavingAtRest
    /\ SubscriberInit

\* the program as it is: no generate function is stubbed
Init == InitWith(NoStub)

\* the program under test doubles: any subset of the generate functions is forced to raise
InitStub == InitWith([Tasks -> BOOLEAN])

\* the responses of the model in one run: all valid, one task's malformed, or
\* the five of them malformed (generateKeyMoments calls no model)
ResponseMaps ==
    { r \in [Tasks -> {"valid", "malformed"}] :
        /\ r["keyMoments"] = "valid"
        /\ Cardinality({t \in Tasks : r[t] = "malformed"}) \in {0, 1, 5} }

\* the program with the model answering valid or malformed content
InitResponses ==
    /\ WorkflowInit(NoStub, ResponseMaps)
    /\ RouteAtRest
    /\ SocialAtRest
    /\ CreationInit
    /\ WritersAtRest
    /\ SavingAtRest
    /\ SubscriberInit

Next ==
    \/ UpdateStatusProcessing
    \/ UpdateJobStatusTranscriptionRunning
    \/ TranscribeAudio
    \/ UpdateJobStatusTranscriptionCompleted
    \/ UpdateJobStatusGenerationRunning
    \/ FanOut
    \/ GenerateSummary
    \/ GenerateSocialPosts
    \/ GenerateTitles
    \/ GenerateHashtags
    \/ GenerateYouTubeTimestamps
    \/ Join
    \/ SaveJobErrors
    \/ UpdateJobStatusGenerationCompleted
    \/ SaveResultsToConvex
    \/ ReplayStep
    \/ Catch
    \/ RetryWorkflow
    \/ GiveUp

Spec == Init /\ [][Next]_vars

SpecStub == InitStub /\ [][Next]_vars

SpecResponses == InitResponses /\ [][Next]_vars

\* the program with the transcription provider answering anything
InitTranscript ==
    /\ WorkflowInitWith(NoStub, ValidResponses, {AnyAnswer})
    /\ RouteAtRest
    /\ SocialAtRest
    /\ CreationInit
    /\ WritersAtRest
    /\ SavingAtRest
    /\ SubscriberInit

SpecTranscript == InitTranscript /\ [][Next]_vars

\* the token route serving requests for the projects of two users; the workflow is at rest
InitToken ==
    /\ WorkflowInit(NoStub, ValidResponses)
    /\ RouteInit([ProjectIds -> Users])
    /\ SocialAtRest
    /\ CreationInit
    /\ WritersAtRest
    /\ SavingAtRest
    /\ SubscriberInit

NextToken ==
    \/ Request
    \/ WithAuth
    \/ CheckProjectId
    \/ Authorize
    \/ IssueToken

SpecToken == InitToken /\ [][NextToken]_vars

\* generateSocialPosts called with any output of the model
InitSocial ==
    /\ WorkflowInit(NoStub, ValidResponses)
    /\ RouteAtRest
    /\ SocialInit({"valid"}, Posts)
    /\ CreationInit
    /\ WritersAtRest
    /\ SavingAtRest
    /\ SubscriberInit

NextSocial ==
    \/ GenerateSocialPostsReturns
    \/ GenerateSocialPostsCalled

SpecSocial == InitSocial /\ [][NextSocial]_vars

\* the server action called a few times; the other components are at rest
InitCreation ==
    /\ WorkflowInit(NoStub, ValidResponses)
    /\ RouteAtRest
    /\ SocialAtRest
    /\ CreationInit
    /\ WritersAtRest
    /\ SavingAtRest
    /\ SubscriberInit

NextCreation ==
    \/ CallCreateProjectAction
    \/ AuthAndValidate
    \/ CreateProject
    \/ InngestSend

SpecCreation == InitCreation /\ [][NextCreation]_vars

\* the steps of one fan-out reporting their statuses concurrently, for a
\* project that exists and for one that does not
InitWriters ==
    /\ WorkflowInit(NoStub, ValidResponses)
    /\ RouteAtRest
    /\ SocialAtRest
    /\ CreationInit
    /\ WritersInit(BOOLEAN)
    /\ SavingAtRest
    /\ SubscriberInit

NextWriters ==
    \E w \in Writers :
        \/ CallUpdateJobStatus(w)
        \/ Get(w)
        \/ Patch(w)

SpecWriters == InitWriters /\ [][NextWriters]_vars

\* saveGeneratedContent called once, with any content, on any document
InitSaving ==
    /\ WorkflowInit(NoStub, ValidResponses)
    /\ RouteAtRest
    /\ SocialAtRest
    /\ CreationInit
    /\ WritersAtRest
    /\ SavingInit(Documents)
    /\ SubscriberInit

NextSaving == SaveGeneratedContentCalled

SpecSaving == InitSaving /\ [][NextSaving]_vars

\* the subscriber receiving messages in any order, duplicates included
InitSubscriber ==
    /\ WorkflowInit(NoStub, ValidResponses)
    /\ RouteAtRest
    /\ SocialAtRest
    /\ CreationInit
    /\ WritersAtRest
    /\ SavingAtRest
    /\ SubscriberInit

NextSubscriber == Deliver

SpecSubscriber == InitSubscriber /\ [][NextSubscriber]_vars

\* the executor keeps scheduling the handler while it has a step to take
SpecFair == Init /\ [][Next]_vars /\ WF_vars(Next)

---------------------------------------------------------------------------
(* Properties *)

Settled == {"fulfilled", "rejected"}

AllSettled == \A i \in Positions : results[i] \in Settled

Rejected == {PromiseOrder[i] : i \in {j \in Positions : results[j] = "rejected"}}

Fulfilled == {PromiseOrder[i] : i \in {j \in Positions : results[j] = "fulfilled"}}

PostJoin ==
    {"save-job-errors", "update-job-status-generation-completed",
     "save-results-to-convex", "returned"}

Terminal == {"completed", "failed"}

C2_FatalHaltsGeneration ==
    memo["transcribe-audio"] = "err" =>
        /\ invoked = {}
        /\ project.jobStatus.contentGeneration = "pending"
        /\ (pc = "failed" /\ project.error # "none") =>
              (project.status = "failed" /\ project.error = "transcription")

C4_TerminalAbsorbing ==
    [][project.status \in Terminal => project'.status = project.status]_vars

\* C5: the generation phase is running or completed only while the
\* transcription phase is completed.
C5_PhaseOrdering ==
    project.jobStatus.contentGeneration \in {"running", "completed"} =>
        project.jobStatus.transcription = "completed"

C5_Witness ==
    /\ project.jobStatus.contentGeneration = "running"
    /\ pc = "join"

C7_NoPartialArtifactWrite ==
    [][ project'.artifacts # project.artifacts =>
          /\ pc = "save-results-to-convex"
          /\ AllSettled
          /\ DOMAIN project.artifacts = {}
          /\ DOMAIN project'.artifacts = Fulfilled ]_vars

C7_Witness ==
    /\ pc = "save-results-to-convex"
    /\ sub = 1
    /\ Cardinality(DOMAIN project.artifacts) = 5

C9_ArtifactErrorExclusive ==
    /\ AllSettled =>
         \A i \in Positions :
            LET t == PromiseOrder[i] IN
            /\ (t \in DOMAIN ContentArgs(results)) # (t \in DOMAIN JobErrorsOf(results))
            /\ results[i] = "fulfilled" =>
                  (t \in DOMAIN ContentArgs(results) /\ ContentArgs(results)[t].task = t)
            /\ results[i] = "rejected" =>
                  (t \in DOMAIN JobErrorsOf(results) /\ JobErrorsOf(results)[t] = t)
    /\ pc = "returned" =>
         \A t \in Tasks :
            (t \in DOMAIN project.artifacts) # (t \in DOMAIN project.jobErrors)

C9_Witness ==
    /\ pc = "returned"
    /\ results[5] = "rejected"
    /\ results[6] = "fulfilled"
    /\ "hashtags" \in DOMAIN project.jobErrors

C11_StepIdsUnique ==
    /\ Cardinality({HandlerOrder[i] : i \in DOMAIN HandlerOrder}) = Len(HandlerOrder)
    /\ \A t, u \in Tasks \ {"keyMoments"} : t # u => ModelCallStep(t) # ModelCallStep(u)
    /\ \A t \in Tasks \ {"keyMoments"} : ModelCallStep(t) \notin HandlerSteps
    /\ \A t \in Tasks \ {"keyMoments"} : memo[ModelCallStep(t)] = "ok" => work[t] = 1

C11_Witness ==
    /\ pc = "returned"
    /\ \A s \in StepIds \ {"save-job-errors"} : memo[s] = "ok"

\* C12 (the claim as stated): a run that ended because save-results-to-convex
\* failed for good is failed, and the recorded error names the step "persistence".
C12_PersistenceFailureLabelled ==
    (pc = "failed" /\ memo["save-results-to-convex"] = "err") =>
        (project.status = "failed" /\ project.error = "persistence")

\* C13 (the claim as stated): every run eventually has status completed or failed.
C13_EveryRunTerminates ==
    <>(project.status \in Terminal)

YouTubeStep == ModelCallStep("youtubeTimestamps")

C17_NoChaptersShortCircuit ==
    /\ (chapters = 0 /\ pc \in ({"join"} \cup PostJoin)) => "youtubeTimestamps" \in Rejected
    /\ chapters = 0 =>
          /\ memo[YouTubeStep] = "none"
          /\ tries[YouTubeStep] = 0
          /\ work["youtubeTimestamps"] = 0

C17_Witness ==
    /\ chapters = 0
    /\ pc = "returned"
    /\ "youtubeTimestamps" \in invoked
    /\ "youtubeTimestamps" \in DOMAIN project.jobErrors

\* C19: the summary, social-posts, titles and hashtags tasks never reject and
\* never appear in the error map; when the model call has failed for good or its
\* response is malformed, the task fulfils with the placeholder artifact, and
\* that is what is stored.
C19_DegradeInsteadOfRaise ==
    \A t \in DegradingTasks :
        /\ t \notin Rejected
        /\ t \notin DOMAIN project.jobErrors
        /\ (AllSettled /\ (memo[ModelCallStep(t)] = "err" \/ response[t] = "malformed")) =>
              (t \in Fulfilled /\ ArtifactOf(t).body = <<"placeholder">>)
        /\ (t \in DOMAIN project.artifacts
               /\ (memo[ModelCallStep(t)] = "err" \/ response[t] = "malformed")) =>
              project.artifacts[t].body = <<"placeholder">>

C19_Witness ==
    /\ pc = "returned"
    /\ memo[ModelCallStep("summary")] = "err"
    /\ memo[ModelCallStep("titles")] = "ok"
    /\ response["titles"] = "malformed"
    /\ project.artifacts["summary"].body = <<"placeholder">>
    /\ project.artifacts["titles"].body = <<"placeholder">>

C21_NonEmptyTranscriptOrRaise ==
    memo["transcribe-audio"] = "ok" =>
        (project.transcript.stored /\ project.transcript.text # "")

\* C22 (the claim as stated): once the transcript field is written, no step of
\* the run changes it.
C22_TranscriptImmutable ==
    [][ project.transcript.stored => project'.transcript = project.transcript ]_vars

\* C23 (the claim as stated): after any call of createProjectAction, a project
\* exists exactly when its podcast/uploaded event has been sent; no project is
\* left uploaded without its event.
C23_CreateProjectAtomic ==
    apc = "idle" =>
        /\ DOMAIN stored = events
        /\ \A n \in 1..Len(outcomeOf) :
              outcomeOf[n] = "threw" => (n \notin DOMAIN stored /\ n \notin events)

\* C24: concurrent updateJobStatus calls that set different jobs lose no
\* update: each job holds the status of its writer's last call that returned,
\* the jobs nobody set keep their value, and for a missing project every call
\* fails and nothing is written.
C24_NoLostJobStatus ==
    /\ \A w \in Writers : acked[w] # "none" => ledger.jobStatus[w] = acked[w]
    /\ \A j \in JobNames \ Writers : ledger.jobStatus[j] = NewJobStatus[j]
    /\ ~ledger.exists =>
          /\ ledger.version = 0 /\ ledger.jobStatus = NewJobStatus
          /\ \A w \in Writers : acked[w] = "none" /\ txn[w].at # "patch"

\* every writer has reported completed, one of them after a rerun
C24_Witness ==
    /\ \A w \in Writers : acked[w] = "completed"
    /\ \E w \in Writers : txn[w].reruns = 1

\* a call for a project that does not exist has failed
C24_WitnessMissing ==
    ~ledger.exists /\ \E w \in Writers : txn[w].at = "threw"

\* C25: saveGeneratedContent sets the content fields it is given and nothing
\* else: a field that is not given keeps its previous value (or stays absent),
\* and status, jobStatus, transcript and error are as they were.
C25_SaveChangesOnlyGivenFields ==
    given.called =>
        /\ \A n \in DOMAIN given.content : doc.artifacts[n] = given.content[n]
        /\ \A n \in ContentFields \ DOMAIN given.content :
              /\ n \in DOMAIN doc.artifacts <=> n \in DOMAIN docBefore.artifacts
              /\ n \in DOMAIN doc.artifacts => doc.artifacts[n] = docBefore.artifacts[n]
        /\ DOMAIN doc.artifacts \subseteq ContentFields
        /\ [doc EXCEPT !.artifacts = << >>] = [docBefore EXCEPT !.artifacts = << >>]

\* a call that gives some fields and not others, on a document that holds a
\* field the call does not give and one it does
C25_Witness ==
    /\ given.called
    /\ \E n, k \in DOMAIN docBefore.artifacts :
          /\ n \notin DOMAIN given.content /\ doc.artifacts[n].body = <<"stored">>
          /\ k \in DOMAIN given.content /\ doc.artifacts[k].body = <<"given">>
    /\ docBefore.status = "failed"

\* C26: the catch block always ends by throwing the error it caught, whether
\* recordError succeeded or failed; recordError (status failed, step "workflow")
\* is called once on every failing attempt, retries included; and nothing but
\* that call changes the project in the catch block.
C26_CatchRethrowsOriginal ==
    /\ [](pc \in {"rethrow", "failed"} =>
             /\ thrown \in HandlerSteps /\ memo[thrown] = "err"
             /\ recordErrorCalls = attempt + 1)
    /\ [][ /\ (pc = "catch") =>
               /\ pc' = "rethrow"
               /\ project' \in {project, recordError(project, "workflow")}
           /\ (pc' = "rethrow" /\ pc # "rethrow") => pc = "catch"
           /\ (attempt' # attempt \/ (pc' = "failed" /\ pc # "failed")) => pc = "rethrow"
         ]_vars

\* a retried attempt has failed again on the checkpointed failure of the
\* persistence step: the catch block has called recordError once per attempt
\* and thrown that failure
C26_Witness ==
    /\ pc = "rethrow" /\ attempt >= 1
    /\ recordErrorCalls = attempt + 1
    /\ thrown = "save-results-to-convex"
    /\ project.status = "failed" /\ project.error = "workflow"

\* the ids of the messages delivered so far
DeliveredIds == {messageId(data[i]) : i \in 1..Len(data)}

\* C27: the subscriber applies each distinct message (topic plus data) once,
\* however often it is delivered, and a delivery of messages that were all
\* processed before leaves transcriptionStatus, generationStatus and
\* hasRealtimeUpdates unchanged.
C27_MessagesAppliedOnce ==
    /\ [](/\ processedMessageIds = DeliveredIds
          /\ applied = Cardinality(DeliveredIds)
          /\ hasRealtimeUpdates <=> data # << >>)
    /\ [][ (processedMessageIds' = processedMessageIds) =>
               UNCHANGED <<transcriptionStatus, generationStatus, hasRealtimeUpdates, applied>>
         ]_vars

\* transcription was shown completed, and its start message, delivered a second
\* time after the done message, has not changed that
C27_Witness ==
    /\ Len(data) = 3
    /\ data[1].topic = REALTIME_TOPICS[1]
    /\ data[2].topic = REALTIME_TOPICS[2]
    /\ data[3] = data[1]
    /\ transcriptionStatus = "completed"
    /\ applied = 2

\* the messages delivered are the four progress events of one run, in some order
OneRun(messages) ==
    /\ \A k \in 1..Len(messages) : messages[k].data = "first"
    /\ \A k, l \in 1..Len(messages) : messages[k] = messages[l] => k = l

\* every topic has been delivered
AllTopicsDelivered ==
    \A i \in 1..4 : \E k \in 1..Len(data) : data[k].topic = REALTIME_TOPICS[i]

\* C28 (the claim as stated): in every delivery order of the four progress
\* events of one run, a phase shown as completed is never shown as running
\* again, and once the four events have arrived both phases are shown
\* completed, as under in-order delivery.
C28_StatusNeverRegresses ==
    /\ []((OneRun(data) /\ AllTopicsDelivered) =>
             transcriptionStatus = "completed" /\ generationStatus = "completed")
    /\ [][ OneRun(data') =>
             /\ (transcriptionStatus = "completed") => transcriptionStatus' = "completed"
             /\ (generationStatus = "completed") => generationStatus' = "completed"
         ]_vars

\* C29: in every state of a run, a project whose status is completed has its
\* transcription status completed, its generation status completed and
\* completedAt set.
C29_CompletedImpliesPhasesDone ==
    project.status = "completed" =>
        /\ project.jobStatus.transcription = "completed"
        /\ project.jobStatus.contentGeneration = "completed"
        /\ project.completedAt

\* the status has just been set to completed by the persistence step, which
\* has yet to publish and return
C29_Witness ==
    /\ pc = "save-results-to-convex" /\ sub = 2
    /\ project.status = "completed"
    /\ project.completedAt

\* C30: in every state, a transcription status of completed means the
\* transcript has been stored; and once the transcription step has failed for
\* good the transcription status is not completed.
C30_TranscriptionCompletedHasTranscript ==
    /\ project.jobStatus.transcription = "completed" => project.transcript.stored
    /\ memo["transcribe-audio"] = "err" => project.jobStatus.transcription # "completed"

\* the transcription step has just set the status to completed, on a retry
\* that followed a failed try
C30_Witness ==
    /\ memo["transcribe-audio"] = "ok"
    /\ pc = "update-job-status-transcription-completed"
    /\ project.jobStatus.transcription = "completed"
    /\ project.transcript.stored
    /\ project.error = "transcription"

\* the transcription step has failed for good after a try that stored the transcript
C30_WitnessFailed ==
    /\ memo["transcribe-audio"] = "err"
    /\ project.transcript.stored
    /\ project.jobStatus.transcription = "failed"

TopicsOf(msgs) == SelectSeq(msgs, LAMBDA m : \E i \in DOMAIN REALTIME_TOPICS : REALTIME_TOPICS[i] = m)

\* C14 (the claim as stated): what a run has published on the four topics is a
\* prefix of TranscriptionStart, TranscriptionDone, GenerationStart,
\* GenerationDone (in order, each at most once, nothing after a transcription
\* failure), and a run that has returned has published all four.
C14_ProgressEventsInOrder ==
    /\ Len(TopicsOf(published)) <= Len(REALTIME_TOPICS)
    /\ \A i \in DOMAIN TopicsOf(published) : TopicsOf(published)[i] = REALTIME_TOPICS[i]
    /\ memo["transcribe-audio"] = "err" => Len(TopicsOf(published)) <= 1
    /\ pc = "returned" => TopicsOf(published) = REALTIME_TOPICS

Grant(g) ==
    /\ g.session \in Users
    /\ g.projectId \in DOMAIN owner
    /\ owner[g.projectId] = g.session
    /\ g.token.channel = channelName(g.projectId)
    /\ g.token.topics = topics

TokenOnlyToOwner ==
    /\ \A g \in issued : Grant(g)
    /\ \A g, h \in issued : g.projectId # h.projectId => g.token.channel # h.token.channel
    /\ resp # Serving =>
         /\ resp.token # NoToken <=>
               /\ resp.status = "200"
               /\ req.session \in Users
               /\ req.projectId \in DOMAIN owner
               /\ owner[req.projectId] = req.session
         /\ resp.token # NoToken =>
               resp.token = getSubscriptionToken(channelName(req.projectId), topics)
         /\ (req.session \in Users /\ req.projectId = "missing") => resp.status = "400"
         /\ resp.status = "404" => req.projectId \notin DOMAIN owner
         /\ resp.status = "403" =>
               (req.projectId \in DOMAIN owner /\ owner[req.projectId] # req.session)

\* C15 (the claim as stated): a token is returned only to the signed-in owner of
\* an existing project and is scoped to that project's channel and the four
\* topics; every other request is answered 400, 404 or 403 with no token.
C15_TokenOnlyToOwner ==
    /\ TokenOnlyToOwner
    /\ (resp # Serving /\ resp.token = NoToken) => resp.status \in {"400", "404", "403"}

\* C15 (amended): as stated, except that a request without a token is answered
\* 400, 404 or 403, or by the authentication helper's own error response when
\* nobody is signed in, or by the catch block's error response when the lookup
\* or the token service raises.
C15_TokenOnlyToOwnerOrError ==
    /\ TokenOnlyToOwner
    /\ (resp # Serving /\ resp.token = NoToken) =>
          resp.status \in {"400", "404", "403", "auth-error", "default-error"}
    /\ (resp # Serving /\ resp.status = "auth-error") => req.session = "anonymous"

C15_Witness ==
    /\ \E g, h \in issued : g.projectId # h.projectId /\ g.session # h.session
    /\ resp # Serving
    /\ resp.status = "403"

====
